---------------------------- MODULE Spec2Model ----------------------------
(***************************************************************************)
(* WhatsApp webhook -> conversational agent bridge.                         *)
(*                                                                         *)
(* Three state machines share this module:                                 *)
(*   SpecVerify  the signature verifier (utils/security.ts) applied to     *)
(*               one request drawn from a bounded set;                     *)
(*   SpecGet     the GET /webhook verification challenge                   *)
(*               (webhookController.ts, verifyWebhook);                    *)
(*   Spec        the POST /webhook dispatcher (handleWebhook) and the      *)
(*               per-message pipelines of services/messageHandler.ts.      *)
(*                                                                         *)
(* A JavaScript `undefined` is the string Absent; a string of the program  *)
(* whose characters matter (the hex hash of the signature header) is a     *)
(* sequence of one-character strings.                                      *)
(***************************************************************************)
EXTENDS Integers, Sequences, FiniteSets, TLC

VARIABLES
    vreq,       \* verifier: the request under verification
    vout,       \* verifier: outcome of verifyRequestSignature, or NotRun
    greq,       \* GET /webhook: query parameters and configured token
    gres,       \* GET /webhook: the response, or NoResponse
    responses,  \* POST /webhook: one HTTP outcome per delivery handled
    pipes,      \* per-message pipelines, in the order they were started
    skipped,    \* messages of handled deliveries whose callback never ran
    agentResponse,  \* detectIntent: the responseMessages the agent answered
    intentReply,    \* detectIntent: what it returned, or NotResolved
    fetch           \* downloadMedia: one invocation, or NoFetch

vars == <<vreq, vout, greq, gres, responses, pipes, skipped, agentResponse, intentReply,
          fetch>>

Absent == "<undefined>"

(***************************************************************************)
(* Bounds.                                                                 *)
(***************************************************************************)
MaxHashLen == 3

(***************************************************************************)
(* Sequences over a set, up to a length.                                   *)
(***************************************************************************)
SeqsUpTo(S, n) == UNION {[1..k -> S] : k \in 0..n}

(***************************************************************************)
(* Hex encoding and decoding, as node's Buffer does them.                  *)
(***************************************************************************)
HexChars == <<"0", "1", "2", "3", "4", "5", "6", "7",
              "8", "9", "a", "b", "c", "d", "e", "f">>

UpperHexChars == <<"0", "1", "2", "3", "4", "5", "6", "7",
                   "8", "9", "A", "B", "C", "D", "E", "F">>

\* value of one hex digit, either case; -1 for any other character
HexVal(c) ==
    IF \E i \in 1..16 : HexChars[i] = c
    THEN (CHOOSE i \in 1..16 : HexChars[i] = c) - 1
    ELSE IF \E i \in 1..16 : UpperHexChars[i] = c
         THEN (CHOOSE i \in 1..16 : UpperHexChars[i] = c) - 1
         ELSE -1

\* hmac.digest('hex'): two lower-case digits per byte
RECURSIVE DigestHex(_)
DigestHex(bytes) ==
    IF bytes = <<>> THEN <<>>
    ELSE <<HexChars[(Head(bytes) \div 16) + 1], HexChars[(Head(bytes) % 16) + 1]>>
         \o DigestHex(Tail(bytes))

\* Buffer.from(s, 'hex'): decodes pair by pair, stops at the first pair that
\* is not two hex digits, and drops a trailing odd character
RECURSIVE BufferFromHex(_)
BufferFromHex(s) ==
    IF Len(s) < 2 THEN <<>>
    ELSE IF HexVal(s[1]) < 0 \/ HexVal(s[2]) < 0 THEN <<>>
    ELSE <<16 * HexVal(s[1]) + HexVal(s[2])>> \o BufferFromHex(SubSeq(s, 3, Len(s)))

\* crypto.timingSafeEqual on two buffers of the same length
timingSafeEqual(a, b) == a = b

(***************************************************************************)
(* Request bodies.  The bytes received are a JSON document in one of three *)
(* encodings: its canonical serialization (what JSON.stringify prints),    *)
(* the same document with other whitespace, or a form encoding.            *)
(***************************************************************************)
Docs == {"{}", "event"}
Forms == {"json", "json-spaced", "form"}
Bytes == [doc : Docs, form : Forms]

NoRawBody == [present |-> FALSE, doc |-> "{}", form |-> "json"]
RawBodyOf(bytes) == [present |-> TRUE, doc |-> bytes.doc, form |-> bytes.form]

\* JSON.stringify of a parsed body
JSONstringify(body) == [doc |-> body, form |-> "json"]

\* express.json({verify}) followed by express.urlencoded: what the handler
\* finds in req.rawBody and req.body.  A request that neither parser takes
\* keeps no rawBody, and its req.body is {} or undefined depending on the
\* body-parser release, so both are inputs.
ParsedRequests ==
    {[bytes |-> b, rawBody |-> RawBodyOf(b), body |-> b.doc] :
        b \in {x \in Bytes : x.form # "form"}}
    \cup {[bytes |-> b, rawBody |-> NoRawBody, body |-> b.doc] :
        b \in {x \in Bytes : x.form = "form"}}
    \cup {[bytes |-> b, rawBody |-> NoRawBody, body |-> u] :
        b \in Bytes, u \in {"{}", Absent}}

(***************************************************************************)
(* HMAC-SHA256 as a collision-free keyed function into short digests.      *)
(***************************************************************************)
Secrets == {"s1", "s2"}
Nibbles == <<0, 10, 11, 12>>

HmacIndex(secret, payload) ==
    (IF secret = "s1" THEN 0 ELSE 6)
    + (IF payload.doc = "{}" THEN 0 ELSE 3)
    + (CASE payload.form = "json" -> 0
         [] payload.form = "json-spaced" -> 1
         [] payload.form = "form" -> 2)

createHmac(secret, payload) ==
    LET i == HmacIndex(secret, payload)
    IN <<16 * Nibbles[(i \div 4) + 1] + Nibbles[(i % 4) + 1]>>

(***************************************************************************)
(* Signature header values.                                                *)
(***************************************************************************)
HashAlphabet == {"0", "a", "b", "c", "A", "z"}
HashStrings == SeqsUpTo(HashAlphabet, MaxHashLen)
NoHeader == [kind |-> "absent", prefix |-> "", hash |-> <<>>]
Headers ==
    {NoHeader}
    \cup [kind : {"string"}, prefix : {"sha256=", "sha1=", ""}, hash : HashStrings]

\* the header a legitimate sender computes
SignedHeader(secret, bytes) ==
    [kind |-> "string", prefix |-> "sha256=", hash |-> DigestHex(createHmac(secret, bytes))]

VerifyRequests ==
    {[header |-> h, appSecret |-> s, bytes |-> p.bytes, rawBody |-> p.rawBody,
      body |-> p.body] :
        h \in Headers, s \in Secrets \cup {Absent, ""}, p \in ParsedRequests}

(***************************************************************************)
(* verifyRequestSignature.  result is "true", "false", or "TypeError" when *)
(* the call throws; payload is what the keyed hash was computed over.      *)
(***************************************************************************)
NoPayload == [present |-> FALSE, doc |-> "{}", form |-> "json"]
Rejected == [result |-> "false", hashed |-> NoPayload]

\* rawBody ?? Buffer.from(JSON.stringify(req.body))
HmacPayload(req) ==
    IF req.rawBody.present
    THEN [present |-> TRUE, doc |-> req.rawBody.doc, form |-> req.rawBody.form]
    ELSE [present |-> TRUE, doc |-> JSONstringify(req.body).doc,
          form |-> JSONstringify(req.body).form]

\* signatureBuffer.length === expectedBuffer.length && timingSafeEqual(...)
SignatureMatches(signatureHash, expectedHash) ==
    LET signatureBuffer == BufferFromHex(signatureHash)
        expectedBuffer == BufferFromHex(expectedHash)
    IN Len(signatureBuffer) = Len(expectedBuffer)
       /\ timingSafeEqual(signatureBuffer, expectedBuffer)

verifyRequestSignature(req) ==
    IF req.header.kind = "absent" \/ (req.header.prefix = "" /\ req.header.hash = <<>>)
    THEN Rejected
    ELSE IF req.appSecret = Absent \/ req.appSecret = ""
    THEN Rejected
    ELSE IF req.header.prefix # "sha256="
    THEN Rejected
    ELSE IF req.header.hash = <<>>
    THEN Rejected
    ELSE IF ~req.rawBody.present /\ req.body = Absent
    THEN \* JSON.stringify(undefined) is undefined; Buffer.from(undefined) throws
         [result |-> "TypeError", hashed |-> NoPayload]
    ELSE LET payload == HmacPayload(req)
             expectedHash == DigestHex(createHmac(req.appSecret,
                                 [doc |-> payload.doc, form |-> payload.form]))
         IN [result |-> IF SignatureMatches(req.header.hash, expectedHash)
                        THEN "true" ELSE "false",
             hashed |-> payload]

(***************************************************************************)
(* GET /webhook.                                                           *)
(***************************************************************************)
QueryValues == {Absent, "", "subscribe", "unsubscribe"}
TokenValues == {Absent, "", "T", "U"}
ChallengeValues == {Absent, "", "123", "9"}
GetRequests ==
    [mode : QueryValues, token : TokenValues, challenge : ChallengeValues,
     WEBHOOK_VERIFICATION_TOKEN : {Absent, "", "T"}]

NoResponse == [status |-> 0, body |-> ""]

\* JavaScript truthiness of an optional string
Truthy(s) == s # Absent /\ s # ""

\* res.send(x): an undefined argument sends an empty body
SendBody(x) == IF x = Absent THEN "" ELSE x

\* verifyWebhook without the test of hub.mode against 'subscribe'
verifyWebhookAnyMode(q) ==
    IF Truthy(q.mode) /\ Truthy(q.token)
    THEN IF q.token = q.WEBHOOK_VERIFICATION_TOKEN
         THEN [status |-> 200, body |-> SendBody(q.challenge)]
         ELSE [status |-> 403, body |-> "Forbidden"]
    ELSE [status |-> 400, body |-> "Bad Request"]

verifyWebhook(q) ==
    IF Truthy(q.mode) /\ Truthy(q.token)
    THEN IF q.mode = "subscribe" /\ q.token = q.WEBHOOK_VERIFICATION_TOKEN
         THEN [status |-> 200, body |-> SendBody(q.challenge)]
         ELSE [status |-> 403, body |-> "Forbidden"]
    ELSE [status |-> 400, body |-> "Bad Request"]

(***************************************************************************)
(* POST /webhook: the InboundEvent.  An optional array is a record with a  *)
(* present flag; a message's arg is text.body, the caption or the filename.*)
(***************************************************************************)
MaxEntries == 2
MaxChanges == 1
MaxMessages == 2
MaxPipes == 2
MaxDeliveries == 2

Senders == {"1555", "1666"}
MediaTypes == {"audio", "image", "document", "video"}
HandledTypes == {"text"} \cup MediaTypes

Msg(j, f, t, p, a) == [json |-> j, from |-> f, type |-> t, payload |-> p, arg |-> a]

\* every kind of element of a messages array
WideMessages ==
    {Msg("object", f, "text", TRUE, "hello") : f \in Senders}
    \cup {Msg("object", f, t, FALSE, Absent) : f \in Senders, t \in HandledTypes}
    \cup {Msg("object", f, "audio", TRUE, Absent) : f \in Senders}
    \cup {Msg("object", f, t, TRUE, c) :
            f \in Senders, t \in {"image", "video"}, c \in {Absent, "cat"}}
    \cup {Msg("object", f, "document", TRUE, n) : f \in Senders, n \in {Absent, "report.pdf"}}
    \cup {Msg("object", f, t, TRUE, Absent) : f \in Senders, t \in {"sticker", Absent}}
    \cup {Msg("null", Absent, Absent, FALSE, Absent)}

\* the kinds that are combined in arrays of several messages
CoreMessages ==
    {Msg("object", f, "text", TRUE, "hello") : f \in Senders}
    \cup {Msg("object", f, "text", FALSE, Absent) : f \in Senders}
    \cup {Msg("object", f, "sticker", TRUE, Absent) : f \in Senders}

MessageLists ==
    SeqsUpTo(CoreMessages, MaxMessages) \cup {<<m>> : m \in WideMessages}

NoList == [present |-> FALSE, items |-> <<>>]
Opt(lists) == {NoList} \cup {[present |-> TRUE, items |-> l] : l \in lists}

NoValue == [present |-> FALSE, messages |-> NoList, statuses |-> FALSE]
Values ==
    {NoValue}
    \cup [present : {TRUE}, messages : Opt(MessageLists), statuses : BOOLEAN]
Changes == [value : Values]
Entries == [changes : Opt(SeqsUpTo(Changes, MaxChanges))]

\* entry.changes of every entry, in iteration order (entry?.forEach, changes?.forEach)
RECURSIVE FlatChanges(_)
FlatChanges(entries) ==
    IF entries = <<>> THEN <<>>
    ELSE Head(entries).changes.items \o FlatChanges(Tail(entries))

\* the messages of a sequence of changes, each with the position of its change
RECURSIVE MessagesFrom(_, _)
MessagesFrom(changes, k) ==
    IF changes = <<>> THEN <<>>
    ELSE LET ms == Head(changes).value.messages.items
         IN [i \in 1..Len(ms) |-> [k |-> k, i |-> i, msg |-> ms[i]]]
            \o MessagesFrom(Tail(changes), k + 1)

BodyMessages(body) == MessagesFrom(FlatChanges(body.entry.items), 1)

IsCoreList(ms) == \A n \in 1..Len(ms) : ms[n].msg \in CoreMessages

Bodies ==
    {b \in [object : {"whatsapp_business_account", "page"},
            entry : Opt(SeqsUpTo(Entries, MaxEntries))] :
        LET ms == BodyMessages(b)
        IN Len(ms) <= MaxPipes /\ (Len(ms) <= 1 \/ IsCoreList(ms))}

(***************************************************************************)
(* The signature side of a delivery: signed by Meta, unsigned, forged, or  *)
(* forged on a request whose body no parser took.                          *)
(***************************************************************************)
EventBytes == [doc |-> "event", form |-> "json-spaced"]
SignedRequest ==
    [header |-> SignedHeader("s1", EventBytes), appSecret |-> "s1", bytes |-> EventBytes,
     rawBody |-> RawBodyOf(EventBytes), body |-> "event"]
DeliverySignatures ==
    {SignedRequest,
     [SignedRequest EXCEPT !.header = NoHeader],
     [SignedRequest EXCEPT !.header.hash = <<"0", "0">>],
     [SignedRequest EXCEPT !.header.hash = <<"0", "0">>, !.rawBody = NoRawBody,
                           !.body = Absent]}

Deliveries == [sig : DeliverySignatures, body : Bodies]

(***************************************************************************)
(* Texts.  A text is the sequence of the fragments a template literal or a *)
(* join concatenates; the empty string is the empty sequence.              *)
(***************************************************************************)
Str(s) == IF s = "" THEN <<>> ELSE <<s>>

\* `${x}` of an optional string
Interpolate(x) == IF x = Absent THEN "undefined" ELSE x

\* webhookController.ts: reply of the default branch
UnsupportedReply(messageType) ==
    <<"Sorry, I cannot process ", Interpolate(messageType), " messages yet.">>

\* messageHandler.ts: errorMessage of each handler's catch block
ErrorMessage(type) ==
    CASE type = "text" -> <<"Sorry, I encountered an error processing your message.">>
      [] type = "audio" -> <<"Sorry, I encountered an error processing your audio message.">>
      [] type = "image" -> <<"Sorry, I encountered an error processing your image.">>
      [] type = "document" -> <<"Sorry, I encountered an error processing your document.">>
      [] type = "video" -> <<"Sorry, I encountered an error processing your video.">>

\* the prompt handed to the generative model
Prompt(msg) ==
    CASE msg.type = "image" ->
           IF Truthy(msg.arg)
           THEN <<"The user sent this image with the caption: \"", msg.arg,
                  "\". Analyze the image and describe what you see.">>
           ELSE <<"Analyze this image and provide a detailed description of what you see.">>
      [] msg.type = "video" ->
           IF Truthy(msg.arg)
           THEN <<"The user sent this video with the caption: \"", msg.arg,
                  "\". Analyze the video and respond accordingly.">>
           ELSE <<"Analyze this video and provide a summary of its content.">>
      [] msg.type = "document" ->
           <<"Analyze this document (", Interpolate(msg.arg),
             ") and provide a comprehensive summary including:\n1. Main topic and purpose\n2. Key points and findings\n3. Important details or data\n4. Overall conclusion">>
      [] msg.type = "audio" ->
           <<"Transcribe and analyze this audio. Provide:\n1. Complete transcription of the speech\n2. Summary of main points\n3. Sentiment or tone of the message">>

\* the function of geminiService.ts (or the inline call, for video) that runs
AnalyzerOf(type) ==
    CASE type = "audio" -> "analyzeAudio"
      [] type = "image" -> "analyzeImage"
      [] type = "document" -> "analyzeDocument"
      [] type = "video" -> "generateContent"

(***************************************************************************)
(* Collaborator invocations, as each pipeline records them.                *)
(***************************************************************************)
Call(op, target, text, mime) == [op |-> op, target |-> target, text |-> text, mime |-> mime]

MediaId == "media-1"
ClaimedMime == "claimed/mime"
FetchedMime == "fetched/mime"
\* what the metadata lookup may report: the type the message claims, or another
FetchedMimes == {ClaimedMime, FetchedMime}

DownloadCall == Call("downloadMedia", MediaId, <<>>, "")
\* an analyzer call that hands on the MIME type the message claims
AnalyzeCallClaimedMime(msg, mime) == Call(AnalyzerOf(msg.type), "", Prompt(msg), ClaimedMime)
AnalyzeCall(msg, mime) == Call(AnalyzerOf(msg.type), "", Prompt(msg), mime)
\* a detectIntent call whose session is keyed by the query
IntentCallKeyedByQuery(query, from) ==
    Call("detectIntent", IF query = <<>> THEN from ELSE query[1], query, "")
IntentCall(query, from) == Call("detectIntent", from, query, "")
\* a send addressed to a sender kept outside the pipeline
SendCallToFirstSender(to, text) == Call("sendTextMessage", "1555", text, "")
SendCall(to, text) == Call("sendTextMessage", to, text, "")

\* a session key that leaves the sender out
createSessionIdShared(mobileNumber) == <<"meta-whatsapp-", "user">>

\* the session key detectIntent derives from its mobileNumber argument
createSessionId(mobileNumber) == <<"meta-whatsapp-", Interpolate(mobileNumber)>>

(***************************************************************************)
(* detectIntent's reading of the agent's response: the first text of every *)
(* response message that has one, empty ones dropped, joined by newlines.  *)
(***************************************************************************)
FallbackReply == <<"I'm sorry, I didn't understand that. Could you please rephrase?">>

\* a response message is the list msg.text.text; <<>> when it has no text
AgentResponses == {<<>>, <<<<"">>, <<"Hi", "there">>, <<"Bye">>>>}

RECURSIVE FirstTexts(_)
FirstTexts(responseMessages) ==
    IF responseMessages = <<>> THEN <<>>
    ELSE (IF Len(Head(responseMessages)) > 0 /\ Head(responseMessages)[1] # ""
          THEN <<Head(responseMessages)[1]>> ELSE <<>>)
         \o FirstTexts(Tail(responseMessages))

RECURSIVE Join(_, _)
Join(texts, sep) ==
    IF texts = <<>> THEN <<>>
    ELSE IF Len(texts) = 1 THEN <<texts[1]>>
    ELSE <<texts[1], sep>> \o Join(Tail(texts), sep)

\* detectIntent without the fallback sentence
detectIntentNoFallback(responseMessages) == Join(FirstTexts(responseMessages), "\n")

\* what detectIntent returns when the agent answers responseMessages
detectIntent(responseMessages) ==
    LET responseText == Join(FirstTexts(responseMessages), "\n")
    IN IF responseText = <<>> THEN FallbackReply ELSE responseText

\* the agent's answers on which detectIntent is examined by itself: up to
\* MaxResponseMessages response messages of up to MaxFragments texts each
MaxResponseMessages == 2
MaxFragments == 2
Fragments == {"", "Hi", "Bye"}
WideAgentResponses == SeqsUpTo(SeqsUpTo(Fragments, MaxFragments), MaxResponseMessages)

(***************************************************************************)
(* handleWebhook: the synchronous part.                                    *)
(***************************************************************************)
\* position of the first change whose value is undefined (value.messages
\* throws a TypeError there), or 0
ThrowAt(changes) ==
    IF \E k \in 1..Len(changes) : ~changes[k].value.present
    THEN CHOOSE k \in 1..Len(changes) :
            /\ ~changes[k].value.present
            /\ \A j \in 1..(k - 1) : changes[j].value.present
    ELSE 0

BodyThrowAt(body) == ThrowAt(FlatChanges(body.entry.items))

Verified(d) == verifyRequestSignature(d.sig).result

Classified(d) == Verified(d) = "true" /\ d.body.object = "whatsapp_business_account"

\* a message whose callback throws before its first suspension
ThrowsAtOnce(msg) == msg.json # "object" \/ (msg.type \in HandledTypes /\ ~msg.payload)

\* handleWebhook without the return after the 401 and with the iteration
\* outside the test of body.object
StartedMessagesUngated(d) ==
    LET t == BodyThrowAt(d.body)
    IN SelectSeq(BodyMessages(d.body), LAMBDA m : t = 0 \/ m.k < t)

\* handleWebhook with a callback that is not async and has no try block:
\* the first message that throws ends the iteration
StartedMessagesAbortOnThrow(d) ==
    IF ~Classified(d) THEN <<>>
    ELSE LET t == BodyThrowAt(d.body)
             ms == SelectSeq(BodyMessages(d.body), LAMBDA m : t = 0 \/ m.k < t)
         IN SelectSeq(ms, LAMBDA m :
                \A n \in 1..Len(ms) :
                    (ThrowsAtOnce(ms[n].msg) /\ ms[n] # m)
                    => (m.k < ms[n].k \/ (m.k = ms[n].k /\ m.i < ms[n].i)))

\* handleWebhook iterating each array from its last element
StartedMessagesReversed(d) ==
    IF ~Classified(d) THEN <<>>
    ELSE LET t == BodyThrowAt(d.body)
             ms == SelectSeq(BodyMessages(d.body), LAMBDA m : t = 0 \/ m.k < t)
         IN [n \in 1..Len(ms) |-> ms[Len(ms) + 1 - n]]

\* the messages whose callback the iteration runs
StartedMessages(d) ==
    IF ~Classified(d) THEN <<>>
    ELSE LET t == BodyThrowAt(d.body)
         IN SelectSeq(BodyMessages(d.body), LAMBDA m : t = 0 \/ m.k < t)

\* the messages of a classified delivery whose callback never runs
UnreachedMessages(d) ==
    IF ~Classified(d) THEN <<>>
    ELSE LET started == StartedMessages(d)
         IN SelectSeq(BodyMessages(d.body),
                      LAMBDA m : \A n \in 1..Len(started) : started[n] # m)

\* what the HTTP client gets (uncaught when handleWebhook throws), with what
\* the handler examined on the way: the verifier's result, body.object once
\* verified, the position of the throwing change once classified, and
\* whether the body carried messages at all
httpResponse(d) ==
    LET out(status, text, uncaught) ==
            [status |-> status, body |-> text, uncaught |-> uncaught,
             verified |-> Verified(d),
             object |-> IF Verified(d) = "true" THEN d.body.object ELSE Absent,
             throwAt |-> IF Classified(d) THEN BodyThrowAt(d.body) ELSE 0,
             messages |-> Len(BodyMessages(d.body)) > 0]
    IN IF Verified(d) = "TypeError" THEN out(0, "", TRUE)
       ELSE IF Verified(d) = "false" THEN out(401, "Unauthorized", FALSE)
       ELSE IF d.body.object # "whatsapp_business_account" THEN out(404, "Not Found", FALSE)
       ELSE IF BodyThrowAt(d.body) # 0 THEN out(0, "", TRUE)
       ELSE out(200, "EVENT_RECEIVED", FALSE)

(***************************************************************************)
(* The per-message callback up to its first suspension.                    *)
(***************************************************************************)
Pipe(d, m, pc, calls, outcome) ==
    [d |-> d, k |-> m.k, i |-> m.i, msg |-> m.msg, pc |-> pc, calls |-> calls,
     mime |-> Absent, synopsis |-> Absent, reply |-> <<>>, delivered |-> <<>>,
     outcome |-> outcome]

StartPipeline(d, m) ==
    IF m.msg.json # "object"
    THEN \* message.from throws outside the try block: the promise rejects
         Pipe(d, m, "done", <<>>, "rejected")
    ELSE IF m.msg.type \in HandledTypes /\ ~m.msg.payload
    THEN \* message.text.body (etc.) throws inside the try block: logged
         Pipe(d, m, "done", <<>>, "logged")
    ELSE IF m.msg.type = "text"
    THEN Pipe(d, m, "intent", <<IntentCall(Str(m.msg.arg), m.msg.from)>>, "")
    ELSE IF m.msg.type \in MediaTypes
    THEN Pipe(d, m, "lookup", <<DownloadCall>>, "")
    ELSE Pipe(d, m, "unsupported",
              <<SendCall(m.msg.from, UnsupportedReply(m.msg.type))>>, "")

StartAll(d, ms) == [n \in 1..Len(ms) |-> StartPipeline(d, ms[n])]

(***************************************************************************)
(* downloadMedia by itself: the access token, the two remote calls and     *)
(* what the caller gets.                                                   *)
(***************************************************************************)
WHATSAPP_API_URL == "https://graph.facebook.com/v21.0"
DownloadError == "Failed to download media"

AccessTokens == {Absent, "", "token-1", "token-2"}
MediaIds == {"media-1", "media-2", "media-3"}
MediaUrls == {"https://cdn/a", "https://cdn/b"}
Blobs == {"bytes-1", "bytes-2"}
\* what a failing remote call throws
RemoteErrors == {"Request failed with status code 401", "timeout"}

NoBlob == [present |-> FALSE, data |-> "", mimeType |-> ""]
NoFetch ==
    [ACCESS_TOKEN |-> Absent, mediaId |-> Absent, pc |-> "idle", remote |-> <<>>,
     mediaUrl |-> Absent, mimeType |-> Absent, result |-> NoBlob, cause |-> "", error |-> ""]

\* axios.get(url, {headers: {Authorization: `Bearer ${accessToken}`}})
RemoteGet(url, accessToken) == [url |-> url, Authorization |-> <<"Bearer ", accessToken>>]

\* downloadMedia without its try block: the error of the failing step
\* reaches the caller
FetchThrowsUnwrapped(f, cause) ==
    [f EXCEPT !.pc = "thrown", !.cause = cause, !.error = cause]

\* the catch block: log, then throw new Error('Failed to download media')
FetchThrows(f, cause) ==
    [f EXCEPT !.pc = "thrown", !.cause = cause, !.error = DownloadError]

(***************************************************************************)
(* Idle values of the machines.                                            *)
(***************************************************************************)
NoVerifyRequest ==
    [header |-> NoHeader, appSecret |-> Absent, bytes |-> [doc |-> "{}", form |-> "json"],
     rawBody |-> NoRawBody, body |-> Absent]
NotRun == [result |-> "none", hashed |-> NoPayload]
NoGetRequest ==
    [mode |-> Absent, token |-> Absent, challenge |-> Absent,
     WEBHOOK_VERIFICATION_TOKEN |-> Absent]

VerifyIdle == vreq = NoVerifyRequest /\ vout = NotRun
GetIdle == greq = NoGetRequest /\ gres = NoResponse
PostIdle == responses = <<>> /\ pipes = <<>> /\ skipped = {}

NotResolved == [done |-> FALSE, reply |-> <<>>]
IntentIdle == agentResponse = <<>> /\ intentReply = NotResolved
FetchIdle == fetch = NoFetch

(***************************************************************************)
(* SpecVerify: one request, one call of verifyRequestSignature.            *)
(***************************************************************************)
InitVerify ==
    /\ vreq \in VerifyRequests
    /\ vout = NotRun
    /\ GetIdle
    /\ PostIdle
    /\ IntentIdle
    /\ FetchIdle

Verify ==
    /\ vout = NotRun
    /\ vout' = verifyRequestSignature(vreq)
    /\ UNCHANGED <<vreq, greq, gres, responses, pipes, skipped, agentResponse, intentReply, fetch>>

NextVerify == Verify

SpecVerify == InitVerify /\ [][NextVerify]_vars

(***************************************************************************)
(* SpecGet: one GET /webhook request.                                      *)
(***************************************************************************)
InitGet ==
    /\ greq \in GetRequests
    /\ gres = NoResponse
    /\ VerifyIdle
    /\ PostIdle
    /\ IntentIdle
    /\ FetchIdle

Get ==
    /\ gres = NoResponse
    /\ gres' = verifyWebhook(greq)
    /\ UNCHANGED <<vreq, vout, greq, responses, pipes, skipped, agentResponse, intentReply, fetch>>

NextGet == Get

SpecGet == InitGet /\ [][NextGet]_vars

(***************************************************************************)
(* SpecIntent: one answer of the agent, read by detectIntent.              *)
(***************************************************************************)
InitIntent ==
    /\ agentResponse \in WideAgentResponses
    /\ intentReply = NotResolved
    /\ VerifyIdle
    /\ GetIdle
    /\ PostIdle
    /\ FetchIdle

Resolve ==
    /\ intentReply = NotResolved
    /\ intentReply' = [done |-> TRUE, reply |-> detectIntent(agentResponse)]
    /\ UNCHANGED <<vreq, vout, greq, gres, responses, pipes, skipped, agentResponse, fetch>>

NextIntent == Resolve

SpecIntent == InitIntent /\ [][NextIntent]_vars

(***************************************************************************)
(* SpecFetch: one invocation of downloadMedia.                             *)
(***************************************************************************)
InitFetch ==
    /\ fetch \in {[NoFetch EXCEPT !.ACCESS_TOKEN = t, !.mediaId = m, !.pc = "start"] :
                      t \in AccessTokens, m \in MediaIds}
    /\ VerifyIdle
    /\ GetIdle
    /\ PostIdle
    /\ IntentIdle

FetchStep(f) ==
    /\ fetch' = f
    /\ UNCHANGED <<vreq, vout, greq, gres, responses, pipes, skipped, agentResponse,
                   intentReply>>

\* the token test, then step 1 is issued
FetchBegin ==
    /\ fetch.pc = "start"
    /\ FetchStep(IF ~Truthy(fetch.ACCESS_TOKEN)
                 THEN FetchThrows(fetch, "ACCESS_TOKEN not configured")
                 ELSE [fetch EXCEPT !.pc = "lookup",
                          !.remote = <<RemoteGet(<<WHATSAPP_API_URL, "/", fetch.mediaId>>,
                                                 fetch.ACCESS_TOKEN)>>])

\* step 1 answers url and mime_type; step 2 is issued
FetchLookupReturns ==
    /\ fetch.pc = "lookup"
    /\ \E url \in MediaUrls, mimeType \in FetchedMimes :
          FetchStep([fetch EXCEPT !.pc = "bytes", !.mediaUrl = url, !.mimeType = mimeType,
                        !.remote = Append(@, RemoteGet(<<url>>, fetch.ACCESS_TOKEN))])

FetchLookupFails ==
    /\ fetch.pc = "lookup"
    /\ \E e \in RemoteErrors : FetchStep(FetchThrows(fetch, e))

\* step 2 answers the bytes: return { data, mimeType }
FetchBytesReturn ==
    /\ fetch.pc = "bytes"
    /\ \E data \in Blobs :
          FetchStep([fetch EXCEPT !.pc = "returned",
                        !.result = [present |-> TRUE, data |-> data,
                                    mimeType |-> fetch.mimeType]])

FetchBytesFail ==
    /\ fetch.pc = "bytes"
    /\ \E e \in RemoteErrors : FetchStep(FetchThrows(fetch, e))

NextFetch ==
    \/ FetchBegin
    \/ FetchLookupReturns
    \/ FetchLookupFails
    \/ FetchBytesReturn
    \/ FetchBytesFail

SpecFetch == InitFetch /\ [][NextFetch]_vars

(***************************************************************************)
(* Spec: POST /webhook deliveries and the pipelines they start.            *)
(*                                                                         *)
(* handleWebhook runs to completion before any continuation of a pipeline *)
(* does (one JavaScript job), so it is one action.  Each remote call in    *)
(* flight later returns or fails, one action each.                         *)
(***************************************************************************)
Init ==
    /\ VerifyIdle
    /\ GetIdle
    /\ IntentIdle
    /\ FetchIdle
    /\ responses = <<>>
    /\ pipes = <<>>
    /\ skipped = {}

\* the whole synchronous effect of handleWebhook on one delivery
handleWebhook(d) ==
    [response |-> httpResponse(d), started |-> StartedMessages(d),
     unreached |-> UnreachedMessages(d)]

\* deliveries with the same effect are the same step
Handlings == {handleWebhook(d) : d \in Deliveries}

Tag(n, ms) == {[d |-> n, k |-> ms[j].k, i |-> ms[j].i, msg |-> ms[j].msg] : j \in 1..Len(ms)}

HandleWebhook(h) ==
    LET n == Len(responses) + 1
        started == StartAll(n, h.started)
        unreached == skipped \cup Tag(n, h.unreached)
        total == Len(pipes) + Len(started) + Cardinality(unreached)
    IN /\ Len(responses) < MaxDeliveries
       /\ total <= MaxPipes
       /\ \/ total <= 1
          \/ /\ \A j \in 1..Len(pipes) : pipes[j].msg \in CoreMessages
             /\ \A j \in 1..Len(started) : started[j].msg \in CoreMessages
             /\ \A u \in unreached : u.msg \in CoreMessages
       /\ responses' = Append(responses, h.response)
       /\ pipes' = pipes \o started
       /\ skipped' = unreached
       /\ UNCHANGED <<vreq, vout, greq, gres, agentResponse, intentReply, fetch>>

\* a handler's catch block: log, then send the apology of the message type
Apologize(p) ==
    [p EXCEPT !.pc = "apology",
              !.calls = Append(@, SendCall(p.msg.from, ErrorMessage(p.msg.type)))]

Finish(p, outcome) == [p EXCEPT !.pc = "done", !.outcome = outcome]

Update(j, p) ==
    /\ pipes' = [pipes EXCEPT ![j] = p]
    /\ UNCHANGED <<vreq, vout, greq, gres, responses, skipped, agentResponse, intentReply, fetch>>

\* downloadMedia, step 1: the metadata lookup returns url and mime_type
LookupReturns(j) ==
    /\ pipes[j].pc = "lookup"
    /\ \E mimeType \in FetchedMimes :
          Update(j, [pipes[j] EXCEPT !.pc = "download", !.mime = mimeType])

\* a handler that calls downloadMedia again when it throws
LookupFailsRetrying(j) ==
    /\ pipes[j].pc = "lookup"
    /\ Update(j, [pipes[j] EXCEPT !.calls = Append(@, DownloadCall)])

\* downloadMedia throws (no token, or the lookup fails)
LookupFails(j) ==
    /\ pipes[j].pc = "lookup"
    /\ Update(j, Apologize(pipes[j]))

\* downloadMedia, step 2: the bytes arrive; the handler calls the analyzer
DownloadReturns(j) ==
    /\ pipes[j].pc = "download"
    /\ Update(j, [pipes[j] EXCEPT !.pc = "analyze",
                     !.calls = Append(@, AnalyzeCall(pipes[j].msg, pipes[j].mime))])

DownloadFails(j) ==
    /\ pipes[j].pc = "download"
    /\ Update(j, Apologize(pipes[j]))

\* the analyzer returns a synopsis; the handler calls detectIntent with it
AnalysisReturns(j) ==
    /\ pipes[j].pc = "analyze"
    /\ \E synopsis \in {"a synopsis", ""} :
          Update(j, [pipes[j] EXCEPT !.pc = "intent", !.synopsis = synopsis,
                        !.calls = Append(@, IntentCall(Str(synopsis), pipes[j].msg.from))])

AnalysisFails(j) ==
    /\ pipes[j].pc = "analyze"
    /\ Update(j, Apologize(pipes[j]))

\* detectIntent returns; the handler sends its reply
IntentReturns(j) ==
    /\ pipes[j].pc = "intent"
    /\ \E r \in AgentResponses :
          Update(j, [pipes[j] EXCEPT !.pc = "send", !.reply = detectIntent(r),
                        !.calls = Append(@, SendCall(pipes[j].msg.from, detectIntent(r)))])

IntentFails(j) ==
    /\ pipes[j].pc = "intent"
    /\ Update(j, Apologize(pipes[j]))

\* the text of the send in flight reaches the user
Deliver(p) == [p EXCEPT !.delivered = Append(@, p.calls[Len(p.calls)].text)]

\* a handler that sends the apology after the reply whatever became of it
SendReturnsThenApologizes(j) ==
    /\ pipes[j].pc \in {"send", "apology", "unsupported"}
    /\ Update(j, IF pipes[j].pc = "send" THEN Apologize(Deliver(pipes[j]))
                 ELSE Finish(Deliver(pipes[j]),
                             IF pipes[j].pc = "apology" THEN "apologized" ELSE "declined"))

\* sendTextMessage resolves
SendReturns(j) ==
    /\ pipes[j].pc \in {"send", "apology", "unsupported"}
    /\ Update(j, Finish(Deliver(pipes[j]),
                   CASE pipes[j].pc = "send" -> "replied"
                     [] pipes[j].pc = "apology" -> "apologized"
                     [] pipes[j].pc = "unsupported" -> "declined"))

\* a handler that sends the apology again when sending it throws
SendFailsRetrying(j) ==
    /\ pipes[j].pc \in {"send", "apology", "unsupported"}
    /\ Update(j, IF pipes[j].pc \in {"send", "apology"} THEN Apologize(pipes[j])
                 ELSE Finish(pipes[j], "swallowed"))

\* sendTextMessage throws: from the try block into the handler's catch, from
\* the catch block or the default branch into the dispatcher's catch
SendFails(j) ==
    /\ pipes[j].pc \in {"send", "apology", "unsupported"}
    /\ Update(j, IF pipes[j].pc = "send" THEN Apologize(pipes[j])
                 ELSE Finish(pipes[j], "swallowed"))

Pipelines == 1..Len(pipes)

Next ==
    \/ \E h \in Handlings : HandleWebhook(h)
    \/ \E j \in Pipelines : LookupReturns(j)
    \/ \E j \in Pipelines : LookupFails(j)
    \/ \E j \in Pipelines : DownloadReturns(j)
    \/ \E j \in Pipelines : DownloadFails(j)
    \/ \E j \in Pipelines : AnalysisReturns(j)
    \/ \E j \in Pipelines : AnalysisFails(j)
    \/ \E j \in Pipelines : IntentReturns(j)
    \/ \E j \in Pipelines : IntentFails(j)
    \/ \E j \in Pipelines : SendReturns(j)
    \/ \E j \in Pipelines : SendFails(j)

Spec == Init /\ [][Next]_vars

(***************************************************************************)
(* SpecLive: Spec when every remote call in flight eventually returns or   *)
(* fails, that is, no pipeline waits forever for its next step.            *)
(***************************************************************************)
PipeStepOf(j) ==
    /\ j \in Pipelines
    /\ \/ LookupReturns(j) \/ LookupFails(j) \/ DownloadReturns(j) \/ DownloadFails(j)
       \/ AnalysisReturns(j) \/ AnalysisFails(j) \/ IntentReturns(j) \/ IntentFails(j)
       \/ SendReturns(j) \/ SendFails(j)

SpecLive == Spec /\ \A j \in 1..MaxPipes : WF_vars(PipeStepOf(j))

(***************************************************************************)
(* Properties.                                                             *)
(***************************************************************************)
Handled == 1..Len(responses)
ExpectedObject == "whatsapp_business_account"
Accepted(n) == responses[n].verified = "true" /\ responses[n].object = ExpectedObject
Acknowledged(n) ==
    responses[n].status = 200 /\ responses[n].body = "EVENT_RECEIVED" /\ ~responses[n].uncaught

Failed(p) == p.pc = "apology" \/ p.outcome \in {"logged", "apologized", "swallowed"}
Ops(p) == {p.calls[c].op : c \in 1..Len(p.calls)}
CallsOf(p, op) == SelectSeq(p.calls, LAMBDA c : c.op = op)
AnalyzerOps == {"analyzeAudio", "analyzeImage", "analyzeDocument", "generateContent"}

PipeStep(j) ==
    \/ LookupReturns(j) \/ LookupFails(j) \/ DownloadReturns(j) \/ DownloadFails(j)
    \/ AnalysisReturns(j) \/ AnalysisFails(j) \/ IntentReturns(j) \/ IntentFails(j)
    \/ SendReturns(j) \/ SendFails(j)

\* C1: every delivery whose verification returned gets exactly one response:
\* 401 when the verifier returned false, else 404 when body.object is not the
\* expected literal, else 200 'EVENT_RECEIVED', whatever entry, changes, value
\* and messages hold; handleWebhook never throws.
C1_OneResponsePerDelivery ==
    \A n \in Handled :
        LET r == responses[n]
        IN r.verified \in {"true", "false"} =>
              /\ ~r.uncaught
              /\ r.verified = "false" => r.status = 401
              /\ (r.verified = "true" /\ r.object # ExpectedObject) => r.status = 404
              /\ (r.verified = "true" /\ r.object = ExpectedObject) => Acknowledged(n)

\* C2: a delivery answered 401 or 404 never has a pipeline, so no
\* downloadMedia, analyzer, detectIntent or sendTextMessage call is ever made
\* on its behalf, whatever messages its body holds.
C2_RejectedDeliveryInvokesNothing ==
    \A n \in Handled :
        responses[n].status \in {401, 404} =>
            /\ \A j \in Pipelines : pipes[j].d # n
            /\ \A u \in skipped : u.d # n

C2_Witness ==
    /\ Len(responses) = 2
    /\ responses[1].status = 401 /\ responses[1].messages
    /\ responses[2].status = 404 /\ responses[2].messages

\* C3: verifyRequestSignature returns a boolean and never throws; a missing
\* header, a missing APP_SECRET, a header without the sha256= prefix, an
\* empty hash, a decoded hash of another length or of another value each
\* yield false.
C3_VerifierReturnsBoolean ==
    vout # NotRun =>
        /\ vout.result \in {"true", "false"}
        /\ ( \/ vreq.header.kind = "absent"
             \/ ~Truthy(vreq.appSecret)
             \/ vreq.header.prefix # "sha256="
             \/ vreq.header.hash = <<>> ) => vout.result = "false"

\* C4: on a request whose raw body was recorded, verifyRequestSignature
\* returns true exactly when the header is 'sha256=' followed by the
\* lower-case hex HMAC of the body under the secret; a header that differs
\* from it in the case of a letter or by appended characters is refused.
C4_AcceptsExactlyTheSignedHeader ==
    (vout # NotRun /\ vreq.rawBody.present /\ Truthy(vreq.appSecret)) =>
        (vout.result = "true" <=> vreq.header = SignedHeader(vreq.appSecret, vreq.bytes))

\* C5: whenever verifyRequestSignature computes the keyed hash, it computes
\* it over the bytes of the request body as received, never over a
\* re-serialization of the parsed body.
C5_HashesTheBytesReceived ==
    vout.hashed.present =>
        [doc |-> vout.hashed.doc, form |-> vout.hashed.form] = vreq.bytes

\* C6 as stated: 400 when hub.mode or hub.verify_token is absent; otherwise
\* 200 with hub.challenge as body when the mode is 'subscribe' and the token
\* equals the configured one; otherwise 403.
C6_AsStated ==
    gres # NoResponse =>
        IF greq.mode = Absent \/ greq.token = Absent
        THEN gres.status = 400
        ELSE IF greq.mode = "subscribe" /\ greq.token = greq.WEBHOOK_VERIFICATION_TOKEN
        THEN gres.status = 200 /\ gres.body = SendBody(greq.challenge)
        ELSE gres.status = 403

\* C6: 400 when hub.mode or hub.verify_token is absent or empty; otherwise
\* 200 with hub.challenge verbatim as body when the mode is 'subscribe' and
\* the token equals the configured one; otherwise 403.  Without a configured
\* token no request is answered 200.
C6_VerificationChallenge ==
    gres # NoResponse =>
        /\ IF ~Truthy(greq.mode) \/ ~Truthy(greq.token)
           THEN gres.status = 400
           ELSE IF greq.mode = "subscribe" /\ greq.token = greq.WEBHOOK_VERIFICATION_TOKEN
           THEN gres.status = 200 /\ gres.body = SendBody(greq.challenge)
           ELSE gres.status = 403
        /\ ~Truthy(greq.WEBHOOK_VERIFICATION_TOKEN) => gres.status # 200

C6_Witness ==
    /\ gres.status = 200 /\ gres.body = "123"
    /\ greq.challenge = "123" /\ greq.token = "T"

\* C7: once a message's processing has failed, no sibling of its delivery is
\* kept from starting or from running on, and the response stays what the
\* shape of the body alone decides: every message that was not started lies
\* behind a change without value (where the iteration itself threw), the
\* response is 200 unless there is such a change, and every started sibling
\* that has not finished can take its next step.
C7_FailureIsolation ==
    \A j \in Pipelines :
        Failed(pipes[j]) =>
            LET n == pipes[j].d
                r == responses[n]
            IN /\ Acknowledged(n) <=> r.throwAt = 0
               /\ \A u \in skipped : u.d = n => (r.throwAt # 0 /\ u.k > r.throwAt)
               /\ \A i \in Pipelines :
                     (pipes[i].d = n /\ pipes[i].pc # "done") => ENABLED PipeStep(i)

C7_Witness ==
    \E j, i \in Pipelines :
        /\ pipes[j].d = pipes[i].d /\ pipes[j].k = pipes[i].k /\ pipes[j].i < pipes[i].i
        /\ pipes[j].outcome = "logged"
        /\ pipes[i].outcome = "replied"
        /\ Acknowledged(pipes[j].d)

\* C8: whenever the processing of a text, audio, image, document or video
\* message fails (also for want of its variant payload), sendTextMessage is
\* invoked with the sender and the apology sentence of the message type.
C8_FailureGetsApology ==
    \A j \in Pipelines :
        LET p == pipes[j]
        IN (p.msg.json = "object" /\ p.msg.type \in HandledTypes /\ Failed(p)) =>
              \E c \in 1..Len(p.calls) :
                  p.calls[c] = SendCall(p.msg.from, ErrorMessage(p.msg.type))

\* C9: every message of an unsupported type in a delivery that passed both
\* checks has sendTextMessage invoked exactly once, with the sender and
\* 'Sorry, I cannot process <type> messages yet.', and nothing else; the
\* response is 200.
C9_UnsupportedTypeDeclined ==
    /\ \A u \in skipped :
          (u.msg.json = "object" /\ u.msg.type \notin HandledTypes) => ~Accepted(u.d)
    /\ \A j \in Pipelines :
          LET p == pipes[j]
          IN (p.msg.json = "object" /\ p.msg.type \notin HandledTypes) =>
                /\ p.calls = <<SendCall(p.msg.from, UnsupportedReply(p.msg.type))>>
                /\ Acknowledged(p.d)

\* C10: every text message with a body in a delivery that passed both checks
\* has detectIntent invoked exactly once, with (text.body, from), no media
\* fetch and no analysis, and once detectIntent has returned r,
\* sendTextMessage is invoked with (from, r).
C10_TextResolvedAndReplied ==
    /\ \A u \in skipped :
          (u.msg.json = "object" /\ u.msg.type = "text" /\ u.msg.payload) => ~Accepted(u.d)
    /\ \A j \in Pipelines :
          LET p == pipes[j]
          IN (p.msg.json = "object" /\ p.msg.type = "text" /\ p.msg.payload) =>
                /\ CallsOf(p, "detectIntent") = <<IntentCall(Str(p.msg.arg), p.msg.from)>>
                /\ Ops(p) \cap ({"downloadMedia"} \cup AnalyzerOps) = {}
                /\ p.reply # <<>> =>
                      (Len(p.calls) >= 2 /\ p.calls[2] = SendCall(p.msg.from, p.reply))

\* every non-empty text of every response message, in order
RECURSIVE NonEmptyFragments(_)
NonEmptyFragments(responseMessages) ==
    IF responseMessages = <<>> THEN <<>>
    ELSE SelectSeq(Head(responseMessages), LAMBDA t : t # "")
         \o NonEmptyFragments(Tail(responseMessages))

\* C13: for an answer of the agent without any non-empty text fragment,
\* detectIntent returns the fixed fallback sentence; what detectIntent
\* returns is never the empty string.
C13_FallbackNeverEmpty ==
    intentReply.done =>
        /\ intentReply.reply # <<>>
        /\ \E n \in 1..Len(intentReply.reply) : intentReply.reply[n] # ""
        /\ NonEmptyFragments(agentResponse) = <<>> => intentReply.reply = FallbackReply

C13_Witness ==
    /\ intentReply.done
    /\ Len(agentResponse) = 2
    /\ agentResponse[1] = <<>> /\ agentResponse[2] = <<"", "">>
    /\ intentReply.reply = FallbackReply

\* C14: when the agent's answer holds non-empty text fragments, detectIntent
\* returns all of them (every element of every message's text list), in
\* order, joined by newlines.
C14_JoinsEveryFragment ==
    (intentReply.done /\ NonEmptyFragments(agentResponse) # <<>>) =>
        intentReply.reply = Join(NonEmptyFragments(agentResponse), "\n")

\* a pipeline as its callback leaves it at its first suspension
AtFirstSuspension(p) ==
    \/ p.pc = "done" /\ p.calls = <<>>
    \/ p.pc \in {"intent", "lookup", "unsupported"} /\ Len(p.calls) = 1

\* C11: in every delivery that passed both checks the 200 is sent in the step
\* that starts all its pipelines, when no remote call of the delivery has
\* completed (every pipeline is at its first suspension), and a pipeline that
\* has not completed always belongs to a delivery already answered 200.
C11_RespondsBeforeCompletion ==
    /\ [](\A j \in Pipelines : Accepted(pipes[j].d) => Acknowledged(pipes[j].d))
    /\ [][Len(responses') > Len(responses) =>
            LET n == Len(responses')
                r == responses'[n]
            IN (r.verified = "true" /\ r.object = ExpectedObject) =>
                  /\ r.status = 200 /\ r.body = "EVENT_RECEIVED" /\ ~r.uncaught
                  /\ \A u \in skipped' : u.d # n
                  /\ \A j \in 1..Len(pipes') :
                        pipes'[j].d = n => AtFirstSuspension(pipes'[j])]_vars

\* C12: within one Value the pipelines are started in array order (message i
\* stands before message j in the order of starting whenever i < j), and
\* completion is not ordered: while both are unfinished either can take the
\* next step.
C12_StartedInArrayOrder ==
    \A a, b \in Pipelines :
        (pipes[a].d = pipes[b].d /\ pipes[a].k = pipes[b].k /\ pipes[a].i < pipes[b].i) =>
            /\ a < b
            /\ (pipes[a].pc # "done" /\ pipes[b].pc # "done") =>
                  (ENABLED PipeStep(a) /\ ENABLED PipeStep(b))

\* the reply for the later message j is delivered while the reply for the
\* earlier message i of the same sender is not yet sent
C12_Witness ==
    \E a, b \in Pipelines :
        /\ pipes[a].d = pipes[b].d /\ pipes[a].k = pipes[b].k /\ pipes[a].i < pipes[b].i
        /\ pipes[a].msg.from = pipes[b].msg.from
        /\ pipes[a].pc = "intent"
        /\ pipes[b].outcome = "replied"

\* the other order: the earlier message is replied to first
RepliedInArrayOrder ==
    \E a, b \in Pipelines :
        /\ pipes[a].d = pipes[b].d /\ pipes[a].k = pipes[b].k /\ pipes[a].i < pipes[b].i
        /\ pipes[a].msg.from = pipes[b].msg.from
        /\ pipes[a].outcome = "replied"
        /\ pipes[b].pc = "intent"

\* C15: every detectIntent invocation uses the session key
\* 'meta-whatsapp-<sender>', so two invocations for the same sender, in one
\* delivery or in two, use the same key.
C15_SessionKeyOfSender ==
    \A a, b \in Pipelines :
        \A x \in 1..Len(pipes[a].calls), y \in 1..Len(pipes[b].calls) :
            LET c == pipes[a].calls[x]
                e == pipes[b].calls[y]
            IN (c.op = "detectIntent" /\ e.op = "detectIntent"
                /\ pipes[a].msg.from = pipes[b].msg.from) =>
                  /\ createSessionId(c.target) = createSessionId(e.target)
                  /\ createSessionId(c.target) = <<"meta-whatsapp-", pipes[a].msg.from>>

C15_Witness ==
    \E a, b \in Pipelines :
        /\ pipes[a].d # pipes[b].d
        /\ pipes[a].msg.from = pipes[b].msg.from
        /\ CallsOf(pipes[a], "detectIntent") # <<>>
        /\ CallsOf(pipes[b], "detectIntent") # <<>>

\* the apology a message gets: of its type, or of the unsupported type
ApologyOf(msg) ==
    IF msg.type \in HandledTypes THEN ErrorMessage(msg.type) ELSE UnsupportedReply(msg.type)

ApologySends(p) == SelectSeq(p.calls, LAMBDA c : c = SendCall(p.msg.from, ApologyOf(p.msg)))

\* C16: an apology is sent at most once per message; when sending it fails
\* the pipeline ends there (the apology is its last call, nothing more is
\* invoked) and the callback's promise is not rejected.
C16_ApologyFailureSwallowed ==
    \A j \in Pipelines :
        LET p == pipes[j]
        IN p.msg.json = "object" =>
              /\ Len(ApologySends(p)) <= 1
              /\ p.outcome # "rejected"
              /\ p.outcome = "swallowed" =>
                    /\ p.pc = "done"
                    /\ p.calls[Len(p.calls)] = SendCall(p.msg.from, ApologyOf(p.msg))
                    /\ ~ENABLED PipeStep(j)

C16_Witness ==
    \E a, b \in Pipelines :
        /\ pipes[a].outcome = "swallowed" /\ pipes[a].msg.type = "text"
        /\ Len(pipes[a].calls) = 3
        /\ pipes[b].outcome = "swallowed" /\ pipes[b].msg.type = "sticker"

\* C17: a delivery that passed both checks and carries no messages is
\* answered 200 and has no pipeline, hence no collaborator invocation.
C17_NoMessagesNoInvocation ==
    \A n \in Handled :
        (Accepted(n) /\ ~responses[n].messages) =>
            /\ Acknowledged(n)
            /\ \A j \in Pipelines : pipes[j].d # n

\* the stages of a media pipeline, in order
StageOps(type) == <<"downloadMedia", AnalyzerOf(type), "detectIntent", "sendTextMessage">>

\* C18: the calls of a media pipeline, the apology aside, are an initial part
\* of Media Fetcher, Content Analyzer, Intent Resolver, Reply Sender, each
\* once; the apology, if any, is the last call (no stage follows a failure);
\* the analyzer is called only after the fetcher answered, the resolver only
\* after the analyzer returned, and with exactly the synopsis.
C18_MediaStagesInOrder ==
    \A j \in Pipelines :
        LET p == pipes[j]
            apology == SendCall(p.msg.from, ApologyOf(p.msg))
            stages == SelectSeq(p.calls, LAMBDA c : c # apology)
        IN (p.msg.json = "object" /\ p.msg.type \in MediaTypes) =>
              /\ Len(stages) <= 4
              /\ \A c \in 1..Len(stages) : stages[c].op = StageOps(p.msg.type)[c]
              /\ \A c \in 1..Len(p.calls) : p.calls[c] = apology => c = Len(p.calls)
              /\ Len(stages) >= 2 => p.mime # Absent
              /\ Len(stages) >= 3 =>
                    (p.synopsis # Absent /\ stages[3].text = Str(p.synopsis))
              /\ (Len(stages) = 1 /\ Len(p.calls) = 2) =>
                    Ops(p) \cap (AnalyzerOps \cup {"detectIntent"}) = {}

C18_Witness ==
    \E j \in Pipelines :
        /\ pipes[j].msg.type = "document"
        /\ pipes[j].outcome = "replied"
        /\ Len(pipes[j].calls) = 4
        /\ pipes[j].synopsis = "a synopsis"

\* C19: the MIME type of every analyzer call is the one the pipeline's own
\* media fetch reported, also when it differs from the one the message claims.
C19_AnalyzerGetsFetchedMime ==
    \A j \in Pipelines :
        \A c \in 1..Len(pipes[j].calls) :
            pipes[j].calls[c].op \in AnalyzerOps =>
                /\ pipes[j].mime \in FetchedMimes
                /\ pipes[j].calls[c].mime = pipes[j].mime

C19_Witness ==
    \E j \in Pipelines :
        /\ pipes[j].msg.type = "audio"
        /\ pipes[j].mime = FetchedMime /\ FetchedMime # ClaimedMime
        /\ \E c \in 1..Len(pipes[j].calls) :
              pipes[j].calls[c].op = "analyzeAudio" /\ pipes[j].calls[c].mime = FetchedMime

Fragment(text, x) == \E n \in 1..Len(text) : text[n] = x

\* C20: the prompt of an analyzer call is the generic prompt of the type
\* when the caption (image, video) or the filename (document) is absent, so
\* that it names no caption and no file; with a caption or a filename the
\* prompt contains it verbatim; the audio prompt is always the generic one.
C20_PromptFollowsCaption ==
    \A j \in Pipelines :
        \A c \in 1..Len(pipes[j].calls) :
            LET msg == pipes[j].msg
                prompt == pipes[j].calls[c].text
            IN pipes[j].calls[c].op \in AnalyzerOps =>
                  CASE msg.type = "image" ->
                         IF msg.arg = Absent
                         THEN prompt = <<"Analyze this image and provide a detailed description of what you see.">>
                         ELSE Fragment(prompt, msg.arg)
                    [] msg.type = "video" ->
                         IF msg.arg = Absent
                         THEN prompt = <<"Analyze this video and provide a summary of its content.">>
                         ELSE Fragment(prompt, msg.arg)
                    [] msg.type = "document" ->
                         IF msg.arg = Absent
                         THEN ~Fragment(prompt, "undefined")
                         ELSE Fragment(prompt, msg.arg)
                    [] msg.type = "audio" -> Len(prompt) = 1

(***************************************************************************)
(* What remains of C9 and C10 on the deliveries whose iteration completes. *)
(***************************************************************************)
\* on an acknowledged delivery every unsupported message is declined once
UnsupportedDeclinedWhenAcknowledged ==
    /\ \A u \in skipped : ~Acknowledged(u.d)
    /\ \A j \in Pipelines :
          LET p == pipes[j]
          IN (p.msg.json = "object" /\ p.msg.type \notin HandledTypes) =>
                p.calls = <<SendCall(p.msg.from, UnsupportedReply(p.msg.type))>>

\* every started text message with a body is resolved once and answered
\* with what detectIntent returned
TextResolvedWhenStarted ==
    \A j \in Pipelines :
        LET p == pipes[j]
        IN (p.msg.json = "object" /\ p.msg.type = "text" /\ p.msg.payload) =>
              /\ CallsOf(p, "detectIntent") = <<IntentCall(Str(p.msg.arg), p.msg.from)>>
              /\ Ops(p) \cap ({"downloadMedia"} \cup AnalyzerOps) = {}
              /\ p.reply # <<>> =>
                    (Len(p.calls) >= 2 /\ p.calls[2] = SendCall(p.msg.from, p.reply))

\* C21: downloadMedia issues at most two remote calls, the metadata lookup
\* and then the byte download, the second only after the first answered;
\* without an access token it issues none; whenever it fails it fails with
\* 'Failed to download media' and hands nothing to the caller, and it hands
\* over a result only after both calls answered.
C21_TwoCallsOneError ==
    LET lookup == RemoteGet(<<WHATSAPP_API_URL, "/", fetch.mediaId>>, fetch.ACCESS_TOKEN)
    IN fetch # NoFetch =>
          /\ Len(fetch.remote) <= 2
          /\ Len(fetch.remote) >= 1 => fetch.remote[1] = lookup
          /\ Len(fetch.remote) = 2 =>
                /\ fetch.mediaUrl # Absent
                /\ fetch.remote[2] = RemoteGet(<<fetch.mediaUrl>>, fetch.ACCESS_TOKEN)
          /\ ~Truthy(fetch.ACCESS_TOKEN) => fetch.remote = <<>>
          /\ fetch.pc = "thrown" => (fetch.error = DownloadError /\ fetch.result = NoBlob)
          /\ fetch.pc # "returned" => fetch.result = NoBlob
          /\ fetch.pc = "returned" => (Len(fetch.remote) = 2 /\ fetch.error = "")

C21_Witness ==
    /\ fetch.pc = "thrown"
    /\ Len(fetch.remote) = 2
    /\ fetch.cause = "timeout"
    /\ fetch.mimeType = FetchedMime

\* does the text occur in a sequence of texts
Among(texts, text) == \E n \in 1..Len(texts) : texts[n] = text

\* C22: a message has at most two sends; a second send is the apology that
\* follows the failed send of the agent's reply; at most one text reaches
\* the user, never the reply and the apology both.
C22_AtMostOneReplyDelivered ==
    \A j \in Pipelines :
        LET p == pipes[j]
            sends == CallsOf(p, "sendTextMessage")
        IN /\ Len(sends) <= 2
           /\ Len(p.delivered) <= 1
           /\ Len(sends) = 2 =>
                 /\ p.reply # <<>> /\ sends[1] = SendCall(p.msg.from, p.reply)
                 /\ sends[2] = SendCall(p.msg.from, ApologyOf(p.msg))
                 /\ ~Among(p.delivered, p.reply)
           /\ ~(Among(p.delivered, p.reply) /\ Among(p.delivered, ApologyOf(p.msg)))

C22_Witness ==
    \E j \in Pipelines :
        /\ Len(CallsOf(pipes[j], "sendTextMessage")) = 2
        /\ pipes[j].outcome = "apologized"
        /\ pipes[j].delivered = <<ErrorMessage(pipes[j].msg.type)>>

\* C23: every send goes to, and every detectIntent call is keyed by, the
\* `from` of the message whose pipeline issued it, whatever other pipelines
\* are running.
C23_CallsKeepTheirSender ==
    \A j \in Pipelines :
        \A c \in 1..Len(pipes[j].calls) :
            LET call == pipes[j].calls[c]
            IN /\ call.op = "sendTextMessage" => call.target = pipes[j].msg.from
               /\ call.op = "detectIntent" =>
                     createSessionId(call.target) = createSessionId(pipes[j].msg.from)

C23_Witness ==
    \E a, b \in Pipelines :
        /\ pipes[a].d # pipes[b].d
        /\ pipes[a].msg.from # pipes[b].msg.from
        /\ pipes[a].pc = "send" /\ pipes[b].pc = "send"

\* C24: the text of every send is non-empty: it is the non-empty reply that
\* detectIntent returned or the apology of the message; an empty synopsis or
\* an empty answer of the agent makes no empty reply.
C24_NoEmptyReply ==
    \A j \in Pipelines :
        \A c \in 1..Len(pipes[j].calls) :
            LET call == pipes[j].calls[c]
            IN call.op = "sendTextMessage" =>
                  /\ call.text # <<>>
                  /\ \E n \in 1..Len(call.text) : call.text[n] # ""
                  /\ \/ call.text = pipes[j].reply
                     \/ call.text = ApologyOf(pipes[j].msg)

C24_Witness ==
    \E j \in Pipelines :
        /\ pipes[j].synopsis = ""
        /\ pipes[j].reply = FallbackReply
        /\ pipes[j].outcome = "replied"
        /\ pipes[j].delivered = <<FallbackReply>>

\* C26: the callback of every element of a messages array, also of one that
\* is not an object, completes without rejecting.
C26_NoCallbackRejects ==
    \A j \in Pipelines : pipes[j].outcome # "rejected"

\* C27: detectIntent calls for different senders use different session keys.
C27_SessionKeyInjective ==
    \A a, b \in Pipelines :
        \A x \in 1..Len(pipes[a].calls), y \in 1..Len(pipes[b].calls) :
            LET c == pipes[a].calls[x]
                e == pipes[b].calls[y]
            IN (c.op = "detectIntent" /\ e.op = "detectIntent"
                /\ pipes[a].msg.from # pipes[b].msg.from) =>
                  createSessionId(c.target) # createSessionId(e.target)

C27_Witness ==
    \E a, b \in Pipelines :
        /\ pipes[a].msg.from # pipes[b].msg.from
        /\ CallsOf(pipes[a], "detectIntent") # <<>>
        /\ CallsOf(pipes[b], "detectIntent") # <<>>
        /\ pipes[a].outcome = "replied" /\ pipes[b].outcome = "replied"

\* remote calls a pipeline has issued: downloadMedia counts twice once its
\* lookup has answered
RemoteCalls(p) == Len(p.calls) + (IF p.mime # Absent THEN 1 ELSE 0)

CallBudget(p) ==
    /\ RemoteCalls(p) <= 6
    /\ Len(CallsOf(p, "downloadMedia")) <= 1
    /\ Len(SelectSeq(p.calls, LAMBDA c : c.op \in AnalyzerOps)) <= 1
    /\ Len(CallsOf(p, "detectIntent")) <= 1
    /\ Len(CallsOf(p, "sendTextMessage")) <= 2

\* C25: every started pipeline issues at most two media calls, one analysis
\* call, one intent call and two sends, and eventually ends with the agent's
\* reply sent, with an apology sent, or with a send failure swallowed.
C25_PipelinesTerminate ==
    /\ [](\A j \in Pipelines : CallBudget(pipes[j]))
    /\ \A j \in 1..MaxPipes :
          [](j \in Pipelines =>
                <>(/\ j \in Pipelines
                   /\ pipes[j].pc = "done"
                   /\ pipes[j].outcome \in {"replied", "apologized", "declined", "swallowed"}))

\* C11 and C17 on the deliveries in which every change has a value
RespondsBeforeCompletionWhenIterationCompletes ==
    [][Len(responses') > Len(responses) =>
          LET n == Len(responses')
              r == responses'[n]
          IN (r.verified = "true" /\ r.object = ExpectedObject /\ r.throwAt = 0) =>
                /\ r.status = 200 /\ r.body = "EVENT_RECEIVED" /\ ~r.uncaught
                /\ \A u \in skipped' : u.d # n
                /\ \A j \in 1..Len(pipes') :
                      pipes'[j].d = n => AtFirstSuspension(pipes'[j])]_vars

NoMessagesNoInvocationWhenIterationCompletes ==
    \A n \in Handled :
        (Accepted(n) /\ ~responses[n].messages /\ responses[n].throwAt = 0) =>
            /\ Acknowledged(n)
            /\ \A j \in Pipelines : pipes[j].d # n

\* C25 without the outcomes: every started pipeline eventually ends, within
\* the budget of calls
EveryPipelineEnds ==
    /\ [](\A j \in Pipelines : CallBudget(pipes[j]))
    /\ \A j \in 1..MaxPipes : [](j \in Pipelines => <>(j \in Pipelines /\ pipes[j].pc = "done"))

=============================================================================
